---- MODULE Spec2Model ----
(***************************************************************************)
(* Model of code/utils.py of the literature-review figure utilities:       *)
(* load_data_items, extract_main_domains, split_column_with_multiple_      *)
(* entries, lstrip and wrap_text.                                          *)
(*                                                                         *)
(* A str is a sequence of one-character strings.  A DataFrame is a record  *)
(* [index, col]: index is the sequence of row labels, col maps each column *)
(* name to the sequence of its cells.  A cell is a tagged record, so that  *)
(* cells of different Python types can sit in one column:                  *)
(*    [k |-> "str", s |-> <<...>>]    a str                                *)
(*    [k |-> "num", n |-> 2010]       a number                             *)
(*    [k |-> "list", l |-> <<...>>]   a list of str                        *)
(*    [k |-> "nan"]                   NaN, the missing-value marker        *)
(***************************************************************************)
EXTENDS Integers, Sequences, FiniteSets, TLC

VARIABLES
    df,        \* the DataFrame the caller holds (read_csv's, then load_data_items')
    pc,        \* "raw" -> "loaded" -> "called" -> "recalled"
    call,      \* history: the arguments of the last call of
               \* split_column_with_multiple_entries, with the table as passed
    out,       \* what the last call returned or raised
    prev,      \* what the call before it returned or raised
    wstring,   \* wrap_text: the argument string
    wmax,      \* wrap_text: the argument max_char
    wout,      \* wrap_text: the returned string
    wpc        \* wrap_text: "arg" -> "done"

vars == <<df, pc, call, out, prev, wstring, wmax, wout, wpc>>

(***************************************************************************)
(* Bounds.                                                                 *)
(***************************************************************************)
MaxRows == 2        \* rows of the data file
MaxChars == 3       \* characters in the multi-valued column, all rows together
MaxWrapLen == 6     \* length of wrap_text's argument
MaxWrapChar == 4    \* largest max_char given to wrap_text

(***************************************************************************)
(* Characters and Python's str methods.                                    *)
(***************************************************************************)
Chars == {"A", ";", "\n"}
Whitespace == {" ", "\n"}

Str(s) == [k |-> "str", s |-> s]
Num(n) == [k |-> "num", n |-> n]
List(l) == [k |-> "list", l |-> l]
NaN == [k |-> "nan"]

\* str.lower(), on the characters of the model
CharLower(c) == IF c = "A" THEN "a" ELSE c

StrLower(a) == [i \in 1..Len(a) |-> CharLower(a[i])]

\* str.lstrip(): the leading whitespace goes, the rest stays
RECURSIVE StrLStrip(_)
StrLStrip(a) ==
    IF a # <<>> /\ Head(a) \in Whitespace THEN StrLStrip(Tail(a)) ELSE a

\* the first position at which sep occurs in s, 0 when there is none
FindSep(s, sep) ==
    LET hits == {i \in 1..(Len(s) - Len(sep) + 1) :
                    SubSeq(s, i, i + Len(sep) - 1) = sep}
    IN  IF hits = {} THEN 0 ELSE CHOOSE i \in hits : \A j \in hits : i <= j

\* str.split(sep) for a non-empty sep (Series.str.split applies it per cell)
RECURSIVE StrSplit(_, _)
StrSplit(s, sep) ==
    LET i == FindSep(s, sep)
    IN  IF i = 0 THEN <<s>>
        ELSE <<SubSeq(s, 1, i - 1)>>
                 \o StrSplit(SubSeq(s, i + Len(sep), Len(s)), sep)

\* lstrip with the lower flag ignored: every value is lowercased
lstripIgnoresFlag(list_of_strs, lower) ==
    [i \in 1..Len(list_of_strs) |-> StrLower(StrLStrip(list_of_strs[i]))]

\* utils.lstrip: [a.lstrip().lower() if lower else a.lstrip() for a in ...]
lstrip(list_of_strs, lower) ==
    [i \in 1..Len(list_of_strs) |->
        IF lower THEN StrLower(StrLStrip(list_of_strs[i]))
        ELSE StrLStrip(list_of_strs[i])]

(***************************************************************************)
(* DataFrames.                                                             *)
(***************************************************************************)
NRows(t) == Len(t.index)

Columns(t) == DOMAIN t.col

IsNaN(c) == c.k = "nan"

\* positions 1..n of a sequence that satisfy keep, in order
RECURSIVE KeptPositions(_, _)
KeptPositions(n, keep) ==
    IF n = 0 THEN <<>>
    ELSE KeptPositions(n - 1, keep) \o (IF keep[n] THEN <<n>> ELSE <<>>)

\* df[mask] and dropna(axis=0): the kept rows in order, each with its own label
TakeRows(t, keep) ==
    LET ps == KeptPositions(NRows(t), keep)
    IN  [index |-> [j \in 1..Len(ps) |-> t.index[ps[j]]],
         col   |-> [c \in Columns(t) |-> [j \in 1..Len(ps) |-> t.col[c][ps[j]]]]]

\* df[name] = values: the column is added, or replaced where it exists
SetColumn(t, name, values) ==
    [t EXCEPT !.col = [c \in Columns(t) \cup {name} |->
                          IF c = name THEN values ELSE t.col[c]]]

(***************************************************************************)
(* The data file as read_csv returns it (load_data_items, line 115): a     *)
(* default index 0..n-1, a citation, a year, four domain columns and one   *)
(* multi-valued text column.  A row of the file is blank (every cell NaN)  *)
(* or carries a year; its text cell is a non-empty str, or NaN where the   *)
(* field of the file is empty.                                             *)
(***************************************************************************)
DefaultStartYear == 2010

Years == {DefaultStartYear - 1, DefaultStartYear}

\* the Year cell of a row of the file: NaN in a blank row
YearCells == {NaN} \cup {Num(y) : y \in Years}

\* the name of the multi-valued column in the file
TextCols == {"Layers", "temp"}

DomainCols == <<"Domain 1", "Domain 2", "Domain 3", "Domain 4">>

Digits == <<"0", "1", "2", "3", "4", "5", "6", "7", "8", "9">>

\* the citation of the p-th row of the file
CitationOf(p) == Str(<<"P", Digits[p]>>)

\* the domain cells of the p-th row of the file
DomainsOf(p) ==
    IF p % 3 = 1 THEN <<Str("Sleep"), NaN, NaN, NaN>>
    ELSE IF p % 3 = 2 THEN <<Str("Signal quality"), Str("BCI"), NaN, NaN>>
    ELSE <<Str("Monitoring"), NaN, NaN, NaN>>

\* every non-empty str of at most n characters
Strs(n) == UNION {[1..m -> Chars] : m \in 1..n}

CellLen(c) == IF c.k = "str" THEN Len(c.s) ELSE 0

\* the text columns of n rows holding at most budget characters together
RECURSIVE TextColumns(_, _)
TextColumns(n, budget) ==
    IF n = 0 THEN {<<>>}
    ELSE UNION {{<<c>> \o r : r \in TextColumns(n - 1, budget - CellLen(c))} :
                    c \in {NaN} \cup {Str(s) : s \in Strs(budget)}}

RawTable(years, cells, textcol) ==
    LET n == Len(years)
        blank(p) == IsNaN(years[p])
    IN  [index |-> [p \in 1..n |-> p - 1],
         col   |-> [c \in {"Citation", "Year", "Domain 1", "Domain 2",
                           "Domain 3", "Domain 4", textcol} |->
            [p \in 1..n |->
                IF blank(p) THEN NaN
                ELSE IF c = "Citation" THEN CitationOf(p)
                ELSE IF c = "Year" THEN years[p]
                ELSE IF c = textcol THEN cells[p]
                ELSE DomainsOf(p)[CHOOSE d \in 1..4 : DomainCols[d] = c]]]]

\* read_csv's result for some data file within the bounds
IsRawTable(t) ==
    \E n \in 1..MaxRows :
        \E years \in [1..n -> YearCells], cells \in TextColumns(n, MaxChars),
           textcol \in TextCols :
            /\ \A p \in 1..n : IsNaN(years[p]) => IsNaN(cells[p])
            /\ \E p \in 1..n : ~IsNaN(cells[p])   \* read as a column of str
            /\ t = RawTable(years, cells, textcol)

(***************************************************************************)
(* extract_main_domains and load_data_items.                               *)
(***************************************************************************)
main_domains == {"Epilepsy", "Sleep", "BCI", "Affective", "Cognitive",
                 "Improvement of processing tools", "Generation of data"}

IsMainDomain(c) == c.k = "str" /\ c.s \in main_domains

\* row[row.isin(main_domains)].values[0] if any(...) else 'Others'
MainDomainOfRow(t, p) ==
    LET hits == {d \in 1..4 : IsMainDomain(t.col[DomainCols[d]][p])}
    IN  IF hits = {} THEN Str("Others")
        ELSE t.col[DomainCols[CHOOSE d \in hits : \A e \in hits : d <= e]][p]

extract_main_domains(t) ==
    SetColumn(t, "Main domain", [p \in 1..NRows(t) |-> MainDomainOfRow(t, p)])

\* dropna(axis=0, how='all'): a row goes when every cell of it is NaN
DropBlankRows(t) ==
    TakeRows(t, [p \in 1..NRows(t) |-> \E c \in Columns(t) : ~IsNaN(t.col[c][p])])

\* dropna(axis=1, how='all', thresh=int(df.shape[0] * 0.1)): thresh decides
\* (in the pandas versions that accept how together with thresh), a column
\* stays when it has at least thresh cells that are not NaN
DropSparseColumns(t) ==
    LET thresh == NRows(t) \div 10
        filled(c) == Cardinality({p \in 1..NRows(t) : ~IsNaN(t.col[c][p])})
    IN  [t EXCEPT !.col = [c \in {d \in Columns(t) : filled(d) >= thresh} |->
                              t.col[c]]]

\* df[df['Year'] >= start_year]; NaN >= start_year is False
FromYear(t, start_year) ==
    TakeRows(t, [p \in 1..NRows(t) |->
                    t.col["Year"][p].k = "num" /\ t.col["Year"][p].n >= start_year])

load_data_items(raw, start_year) ==
    extract_main_domains(FromYear(DropSparseColumns(DropBlankRows(raw)), start_year))

(***************************************************************************)
(* replace_nans_in_column(df, column_name, replace_by): in place.          *)
(***************************************************************************)
replace_nans_in_column(t, column_name, replace_by) ==
    [t EXCEPT !.col[column_name] =
        [p \in 1..NRows(t) |->
            IF IsNaN(t.col[column_name][p]) THEN Str(replace_by)
            ELSE t.col[column_name][p]]]

\* the default ' ' and the empty str
ReplaceBys == {<<" ">>, <<>>}

(***************************************************************************)
(* split_column_with_multiple_entries(df, col, ref_col, sep, lower).       *)
(* The operator gives [df, out]: the caller's table after the call and     *)
(* what the call returned ([k |-> "ok", frame]) or raised ([k |-> "raise", *)
(* exc]).  A returned frame is [columns, rows], rows being value_per_row.  *)
(***************************************************************************)
Raise(exc) == [k |-> "raise", exc |-> exc]

Return(frame) == [k |-> "ok", frame |-> frame]

None == [k |-> "none"]

\* line 78, right-hand side: df[col].str.split(sep).apply(lstrip, lower=lower)
TempColumn(t, col, sep, lower) ==
    [p \in 1..NRows(t) |-> List(lstrip(StrSplit(t.col[col][p].s, sep), lower))]

\* lines 80-81: a single name becomes a list of one name
RefColList(ref_col) == IF ref_col.k = "list" THEN ref_col.l ELSE <<ref_col.s>>

\* RowValues with the identifier cells read from the first row of the table
RowValuesFirstRowIds(t, refs, p) ==
    LET items == t.col["temp"][p].l
    IN  [j \in 1..Len(items) |->
            <<Num(t.index[p])>>
                \o [r \in 1..Len(refs) |-> t.col[refs[r]][1]]
                \o <<Str(items[j])>>]

\* RowValues with the empty values left out (for m in items['temp'] if m)
RowValuesNoEmpty(t, refs, p) ==
    LET NonEmpty(m) == m # <<>>
        items == SelectSeq(t.col["temp"][p].l, NonEmpty)
    IN  [j \in 1..Len(items) |->
            <<Num(t.index[p])>>
                \o [r \in 1..Len(refs) |-> t.col[refs[r]][p]]
                \o <<Str(items[j])>>]

\* RowValues with the row's position (enumerate) in place of its label
RowValuesPosition(t, refs, p) ==
    LET items == t.col["temp"][p].l
    IN  [j \in 1..Len(items) |->
            <<Num(p - 1)>>
                \o [r \in 1..Len(refs) |-> t.col[refs[r]][p]]
                \o <<Str(items[j])>>]

\* line 86, for the items of the row at position p: one list
\* [i, *items[ref_col].tolist(), m] per m of items['temp'], i the row's label
RowValues(t, refs, p) ==
    LET items == t.col["temp"][p].l
    IN  [j \in 1..Len(items) |->
            <<Num(t.index[p])>>
                \o [r \in 1..Len(refs) |-> t.col[refs[r]][p]]
                \o <<Str(items[j])>>]

\* ValuePerRow with the first row of the table skipped
RECURSIVE ValuePerRowFromSecond(_, _, _)
ValuePerRowFromSecond(t, refs, n) ==
    IF n <= 1 THEN <<>>
    ELSE ValuePerRowFromSecond(t, refs, n - 1) \o RowValues(t, refs, n)

\* ValuePerRow with each row's values put in front of the earlier rows'
RECURSIVE ValuePerRowPrepend(_, _, _)
ValuePerRowPrepend(t, refs, n) ==
    IF n = 0 THEN <<>>
    ELSE RowValues(t, refs, n) \o ValuePerRowPrepend(t, refs, n - 1)

\* lines 83-86: the rows df.iterrows() yields, first to last, the first n of them
RECURSIVE ValuePerRow(_, _, _)
ValuePerRow(t, refs, n) ==
    IF n = 0 THEN <<>>
    ELSE ValuePerRow(t, refs, n - 1) \o RowValues(t, refs, n)

split_column_with_multiple_entries(t, col, ref_col, sep, lower) ==
    IF col \notin Columns(t)
    THEN [df |-> t, out |-> Raise("KeyError")]                    \* df[col]
    ELSE IF \E p \in 1..NRows(t) : t.col[col][p].k # "str"
    THEN [df |-> t, out |-> Raise("TypeError")]
         \* str.split gives NaN for a cell that is no str; lstrip iterates it
    ELSE
        LET t1   == SetColumn(t, "temp", TempColumn(t, col, sep, lower))
            refs == RefColList(ref_col)
        IN  IF \E r \in 1..Len(refs) : refs[r] \notin Columns(t1)
            THEN [df |-> t1, out |-> Raise("KeyError")]  \* df[[*ref_col, 'temp']]
            ELSE [df  |-> t1,
                  out |-> Return([columns |-> <<"paper nb">> \o refs \o <<col>>,
                                  rows    |-> ValuePerRow(t1, refs, NRows(t1))])]

(***************************************************************************)
(* The arguments the calls are made with.                                  *)
(***************************************************************************)
Seps == {<<";", "\n">>, <<";">>}

DefaultSep == <<";", "\n">>

DefaultRefCol == Str("Citation")

RefCols == {DefaultRefCol, List(<<"Citation", "Main domain">>)}

\* every choice of the keyword arguments for the table's text column; a
\* column that the table lacks is asked for with the defaults
CallArgs(t) ==
    {[col |-> c, ref_col |-> r, sep |-> sp, lower |-> lo] :
        c \in TextCols \cap Columns(t), r \in RefCols, sp \in Seps,
        lo \in BOOLEAN}
    \cup {[col |-> "Missing", ref_col |-> DefaultRefCol, sep |-> DefaultSep,
           lower |-> TRUE]}
    \cup {[col |-> c, ref_col |-> r, sep |-> DefaultSep, lower |-> TRUE] :
            c \in TextCols \cap Columns(t),
            r \in {Str("Absent"), List(<<"Citation", "Absent">>)}}

(***************************************************************************)
(* The table pipeline: read the file, load_data_items, the NaN of the text *)
(* column replaced or not, then two calls of                               *)
(* split_column_with_multiple_entries with the same arguments on that      *)
(* table.                                                                  *)
(***************************************************************************)
NoCall == [df |-> <<>>, col |-> "", ref_col |-> DefaultRefCol,
           sep |-> DefaultSep, lower |-> TRUE]

WrapIdle ==
    /\ wstring = <<>>
    /\ wmax = 0
    /\ wout = <<>>
    /\ wpc = "idle"

Init ==
    /\ IsRawTable(df)
    /\ pc = "raw"
    /\ call = NoCall
    /\ out = None
    /\ prev = None
    /\ WrapIdle

Load ==
    /\ pc = "raw"
    /\ df' = load_data_items(df, DefaultStartYear)
    /\ pc' = "loaded"
    /\ UNCHANGED <<call, out, prev, wstring, wmax, wout, wpc>>

ReplaceNans ==
    /\ pc = "loaded"
    /\ \E c \in TextCols \cap Columns(df), by \in ReplaceBys :
          df' = replace_nans_in_column(df, c, by)
    /\ UNCHANGED <<pc, call, out, prev, wstring, wmax, wout, wpc>>

Call ==
    /\ pc = "loaded"
    /\ \E a \in CallArgs(df) :
        LET r == split_column_with_multiple_entries(
                     df, a.col, a.ref_col, a.sep, a.lower)
        IN  /\ call' = [df |-> df, col |-> a.col, ref_col |-> a.ref_col,
                        sep |-> a.sep, lower |-> a.lower]
            /\ df' = r.df
            /\ out' = r.out
    /\ prev' = out
    /\ pc' = "called"
    /\ UNCHANGED <<wstring, wmax, wout, wpc>>

Recall ==
    /\ pc = "called"
    /\ LET r == split_column_with_multiple_entries(
                    df, call.col, call.ref_col, call.sep, call.lower)
       IN  /\ df' = r.df
           /\ out' = r.out
    /\ prev' = out
    /\ pc' = "recalled"
    /\ UNCHANGED <<call, wstring, wmax, wout, wpc>>

Next == Load \/ ReplaceNans \/ Call \/ Recall

Spec == Init /\ [][Next]_vars

(***************************************************************************)
(* wrap_text(string, max_char).                                            *)
(***************************************************************************)
WrapChars == {"a", " ", "\n"}

\* str.split() with no separator: the maximal runs of non-whitespace
RECURSIVE StrWords(_)
StrWords(s) ==
    LET t == StrLStrip(s)
        stops == {i \in 1..Len(t) : t[i] \in Whitespace}
        e == IF stops = {} THEN Len(t) + 1
             ELSE CHOOSE i \in stops : \A j \in stops : i <= j
    IN  IF t = <<>> THEN <<>>
        ELSE <<SubSeq(t, 1, e - 1)>> \o StrWords(SubSeq(t, e, Len(t)))

\* StartsNewLine with the joining space not counted
StartsNewLineNoSpace(line_len, i, max_char) == line_len + Len(i) > max_char

\* line 185: the word i does not fit on the line
StartsNewLine(line_len, i, max_char) == line_len + 1 + Len(i) > max_char

\* lines 184-191, from the k-th of string_parts on
RECURSIVE WrapLoop(_, _, _, _, _)
WrapLoop(string_parts, k, out_string, line_len, max_char) ==
    IF k > Len(string_parts) THEN out_string
    ELSE LET i == string_parts[k]
         IN  IF StartsNewLine(line_len, i, max_char)
             THEN WrapLoop(string_parts, k + 1, out_string \o <<"\n">> \o i,
                           Len(i), max_char)
             ELSE WrapLoop(string_parts, k + 1, out_string \o <<" ">> \o i,
                           line_len + Len(i) + 1, max_char)

wrap_text(string, max_char) ==
    LET string_parts == StrWords(string)
    IN  IF Len(string) > max_char /\ Len(string_parts) > 1
        THEN WrapLoop(string_parts, 2, string_parts[1], Len(string_parts[1]),
                      max_char)
        ELSE string

WrapStrs == UNION {[1..m -> WrapChars] : m \in 0..MaxWrapLen}

TableIdle ==
    /\ df = [index |-> <<>>, col |-> <<>>]
    /\ pc = "idle"
    /\ call = NoCall
    /\ out = None
    /\ prev = None

InitWrap ==
    /\ TableIdle
    /\ wstring \in WrapStrs
    /\ wmax \in 0..MaxWrapChar
    /\ wout = <<>>
    /\ wpc = "arg"

Wrap ==
    /\ wpc = "arg"
    /\ wout' = wrap_text(wstring, wmax)
    /\ wpc' = "done"
    /\ UNCHANGED <<df, pc, call, out, prev, wstring, wmax>>

NextWrap == Wrap

SpecWrap == InitWrap /\ [][NextWrap]_vars

(***************************************************************************)
(* Properties of the first call of split_column_with_multiple_entries.     *)
(* call holds its arguments, out its result.                               *)
(***************************************************************************)
FirstCall == pc = "called"

Returned == pc = "called" /\ out.k = "ok"

InRows == NRows(call.df)

Refs == RefColList(call.ref_col)

\* the target column exists and every cell of it is a str
TextInput ==
    /\ call.col \in Columns(call.df)
    /\ \A p \in 1..InRows : call.df.col[call.col][p].k = "str"

RefsPresent == \A r \in 1..Len(Refs) : Refs[r] \in Columns(call.df)

Cell(p) == call.df.col[call.col][p].s

\* the pieces of the p-th input row's target cell, as split on the separator
Pieces(p) == StrSplit(Cell(p), call.sep)

OutRows == out.frame.rows

OutLabel(r) == r[1].n

OutValue(r) == r[Len(r)].s

RECURSIVE PiecesUpTo(_)
PiecesUpTo(n) == IF n = 0 THEN 0 ELSE PiecesUpTo(n - 1) + Len(Pieces(n))

\* the position in the input table of the row that output row j comes from,
\* counting the pieces of the input rows in order
Origin(j) == CHOOSE p \in 1..InRows : PiecesUpTo(p - 1) < j /\ j <= PiecesUpTo(p)

\* the output rows that carry the label of the p-th input row, in output order
RowsOf(p) ==
    LET FromP(r) == OutLabel(r) = call.df.index[p]
    IN  SelectSeq(OutRows, FromP)

\* the position of the input row with the given label
PosOf(label) == CHOOSE p \in 1..InRows : call.df.index[p] = label

\* C1: with a target column of text cells (and the identifier columns present)
\* the call returns, and the number of rows it returns is the sum over the
\* input rows of the number of pieces the row's target cell splits into.
C1_RowCount ==
    (FirstCall /\ TextInput /\ RefsPresent) =>
        /\ out.k = "ok"
        /\ Len(OutRows) = PiecesUpTo(InRows)

C1_Witness ==
    /\ Returned
    /\ InRows = 2
    /\ Len(Pieces(1)) = 2
    /\ Len(Pieces(2)) = 1
    /\ Len(OutRows) = 3

\* C2: the row-index values of the output never decrease, the output rows of
\* an earlier input row all come before those of a later one, and the values
\* of one input row are its processed pieces, all of them, in split order.
C2_OrderPreserved ==
    Returned =>
        /\ \A j, k \in 1..Len(OutRows) :
              j < k => /\ OutLabel(OutRows[j]) <= OutLabel(OutRows[k])
                       /\ PosOf(OutLabel(OutRows[j])) <= PosOf(OutLabel(OutRows[k]))
        /\ \A j \in 1..Len(OutRows) :
              \E p \in 1..InRows : OutLabel(OutRows[j]) = call.df.index[p]
        /\ \A p \in 1..InRows :
              [j \in 1..Len(RowsOf(p)) |-> OutValue(RowsOf(p)[j])]
                  = lstrip(Pieces(p), call.lower)

C2_Witness ==
    /\ Returned
    /\ InRows = 2
    /\ Len(Pieces(1)) = 2
    /\ Pieces(1)[1] # Pieces(1)[2]
    /\ Len(Pieces(2)) = 2
    /\ Pieces(2)[1] = Pieces(2)[2]

\* C3: every output row carries, in its identifier columns, the cells the
\* input row with its row-index label has in those columns, and its value is
\* one of the processed pieces of that same input row; for ref_col given as
\* one name and as a list of names.
C3_IdentifierFidelity ==
    Returned =>
        /\ out.frame.columns = <<"paper nb">> \o Refs \o <<call.col>>
        /\ \A j \in 1..Len(OutRows) :
              LET r == OutRows[j]
                  p == PosOf(OutLabel(r))
              IN  /\ Len(r) = Len(Refs) + 2
                  /\ \A i \in 1..Len(Refs) : r[1 + i] = call.df.col[Refs[i]][p]
                  /\ p = Origin(j)
                  /\ \E m \in 1..Len(Pieces(p)) :
                        OutValue(r) = lstrip(Pieces(p), call.lower)[m]

C3_Witness ==
    /\ Returned
    /\ call.ref_col.k = "list"
    /\ Len(Refs) = 2
    /\ InRows = 2
    /\ \E j, k \in 1..Len(OutRows) :
          /\ OutRows[j][2] # OutRows[k][2]
          /\ OutRows[j][3] # OutRows[k][3]

\* C4 (as claimed): after the call the input table has the same columns and
\* the same cells as before it.
C4_InputUnchanged == FirstCall => df = call.df

\* C5 (as claimed): when the target column or an identifier column is absent
\* from the input table the call raises KeyError and the input table is the
\* same after the failed call as before it.
C5_FailsClean ==
    (FirstCall /\ (call.col \notin Columns(call.df) \/ ~RefsPresent)) =>
        /\ out = Raise("KeyError")
        /\ df = call.df

\* C6 (as claimed): a second call with the same arguments on the same table
\* gives what the first call gave.
C6_SameOnRerun == pc = "recalled" => out = prev

\* v is piece without its leading whitespace, lowercased exactly when lower
IsProcessed(v, piece, lower) ==
    \E n \in 0..Len(piece) :
        /\ \A i \in 1..n : piece[i] \in Whitespace
        /\ n < Len(piece) => piece[n + 1] \notin Whitespace
        /\ Len(v) = Len(piece) - n
        /\ \A i \in 1..Len(v) :
              v[i] = IF lower THEN CharLower(piece[n + i]) ELSE piece[n + i]

\* C7: every value of the output is its split piece without the leading
\* whitespace, trailing whitespace kept, in lowercase exactly when lower is
\* true.
C7_StripAndLower ==
    Returned =>
        \A j \in 1..Len(OutRows) :
            LET p == Origin(j)
                m == j - PiecesUpTo(p - 1)
            IN  IsProcessed(OutValue(OutRows[j]), Pieces(p)[m], call.lower)

C7_Witness ==
    /\ Returned
    /\ ~call.lower
    /\ \E p \in 1..InRows : Cell(p) = <<"\n", "A", "\n">>
    /\ \E j \in 1..Len(OutRows) : OutValue(OutRows[j]) = <<"A", "\n">>

\* the occurrences of sep in s, counted left to right without overlap
RECURSIVE SepCount(_, _)
SepCount(s, sep) ==
    IF Len(s) < Len(sep) THEN 0
    ELSE IF SubSeq(s, 1, Len(sep)) = sep
         THEN 1 + SepCount(SubSeq(s, Len(sep) + 1, Len(s)), sep)
         ELSE SepCount(Tail(s), sep)

StartsWithSep(s, sep) == Len(s) >= Len(sep) /\ SubSeq(s, 1, Len(sep)) = sep

EndsWithSep(s, sep) ==
    Len(s) >= Len(sep) /\ SubSeq(s, Len(s) - Len(sep) + 1, Len(s)) = sep

HasAdjacentSeps(s, sep) ==
    \E i \in 1..Len(s) : StartsWithSep(SubSeq(s, i, Len(s)), sep \o sep)

\* C8: no piece is filtered out.  An input row with a text cell gives one
\* output row more than its cell has separators, so at least one; an empty
\* cell gives one row with the empty value; a leading separator gives an empty
\* first value, a trailing one an empty last value, two adjacent ones an empty
\* value.
C8_EmptiesKept ==
    (FirstCall /\ TextInput /\ RefsPresent) =>
        /\ out.k = "ok"
        /\ \A p \in 1..InRows :
              LET rows == RowsOf(p)
                  n == Len(rows)
              IN  /\ n = SepCount(Cell(p), call.sep) + 1
                  /\ Cell(p) = <<>> => n = 1 /\ OutValue(rows[1]) = <<>>
                  /\ StartsWithSep(Cell(p), call.sep) => OutValue(rows[1]) = <<>>
                  /\ EndsWithSep(Cell(p), call.sep) => OutValue(rows[n]) = <<>>
                  /\ HasAdjacentSeps(Cell(p), call.sep) =>
                        \E j \in 1..n : OutValue(rows[j]) = <<>>

C8_Witness ==
    /\ Returned
    /\ \E p \in 1..InRows : Cell(p) = <<>>
    /\ \E p \in 1..InRows :
          /\ HasAdjacentSeps(Cell(p), call.sep)
          /\ StartsWithSep(Cell(p), call.sep)
          /\ EndsWithSep(Cell(p), call.sep)
          /\ Len(RowsOf(p)) = 3

\* C9 (as claimed): the first column of every output row is the 0-based
\* position, in the input table, of the input row it comes from.
C9_PositionalIndex ==
    Returned =>
        \A j \in 1..Len(OutRows) : OutRows[j][1] = Num(Origin(j) - 1)

\* C9 (amended): the first column of every output row is the index label of
\* the input row it comes from; it is the row's 0-based position when the
\* input table has the default index 0..n-1.
C9_IndexLabel ==
    Returned =>
        \A j \in 1..Len(OutRows) :
            /\ OutRows[j][1] = Num(call.df.index[Origin(j)])
            /\ (\A p \in 1..InRows : call.df.index[p] = p - 1) =>
                  OutRows[j][1] = Num(Origin(j) - 1)

C9_Witness ==
    /\ Returned
    /\ call.df.index = <<1>>
    /\ Len(OutRows) = 2
    /\ OutRows[1][1] = Num(1)
    /\ OutRows[2][1] = Num(1)

(***************************************************************************)
(* Properties of wrap_text.                                                *)
(***************************************************************************)
Lines(s) == StrSplit(s, <<"\n">>)

====
